---- MODULE Spec2Model ----
(***************************************************************************)
(* Contact-intake service (backend_contact): the POST /contact pipeline    *)
(* of server.js, the limiter of rateLimit.js and the schema and sanitizer  *)
(* of validators.js, as a state machine.                                   *)
(*                                                                         *)
(* Strings are sequences of one-character tokens.  "SP", "CR" and "LF"     *)
(* stand for the space, carriage-return and line-feed characters; every    *)
(* other token is an ordinary printable character.                         *)
(***************************************************************************)
EXTENDS Integers, Sequences, FiniteSets

VARIABLES
  env,      \* the configuration read from the environment at start
  now,      \* the clock, in seconds
  limiter,  \* the limiter's in-memory store: a record per client key
  pending,  \* the requests suspended at await sendContactEmail(...)
  last,     \* the request the service acted on last, with what it did
  lim,      \* the limiter's last decision: the key, the count before, the verdict
  san,      \* sanitizeInput applied to one input, once and twice
  pair,     \* two requests differing only in the honeypot field
  proc,     \* the Node process: "up", or "crashed" on an unhandled rejection
  ui        \* the portfolio site: its configuration, contact form and I/O in flight

vars == <<env, now, limiter, pending, last, lim, san, pair, proc, ui>>

-----------------------------------------------------------------------------
(* JavaScript values of a request body's fields *)

Undefined == [t |-> "undefined", s |-> <<>>]

Null == [t |-> "null", s |-> <<>>]

Str(s) == [t |-> "string", s |-> s]

\* an object with neither a callable toString nor a callable valueOf, as a
\* JSON body can carry one: { "toString": null, "valueOf": null }
Unprintable == [t |-> "object", s |-> <<>>]

\* String(v) throws a TypeError: the value cannot be converted to a primitive
StringThrows(v) == v.t = "object"

\* String(v): the string a value converts to
ToString(v) ==
  IF v.t = "string" THEN v.s
  ELSE IF v.t = "null" THEN <<"n", "u", "l", "l">>
  ELSE <<"u", "n", "d", "e", "f", "i", "n", "e", "d">>

\* String(v ?? '')
StringOrEmpty(v) == IF v.t \in {"undefined", "null"} THEN <<>> ELSE ToString(v)

\* the characters String.prototype.trim removes, among the model's tokens
Whitespace == {"SP", "CR", "LF"}

RECURSIVE TrimStart(_)
TrimStart(s) ==
  IF s # <<>> /\ Head(s) \in Whitespace THEN TrimStart(Tail(s)) ELSE s

RECURSIVE TrimEnd(_)
TrimEnd(s) ==
  IF s # <<>> /\ s[Len(s)] \in Whitespace
  THEN TrimEnd(SubSeq(s, 1, Len(s) - 1))
  ELSE s

Trim(s) == TrimEnd(TrimStart(s))

\* s.replace(/[\r\n]/g, ' ')
ReplaceCRLF(s) == [i \in 1..Len(s) |-> IF s[i] \in {"CR", "LF"} THEN "SP" ELSE s[i]]

IsNotCR(c) == c # "CR"

RECURSIVE DropFirstCR(_)
DropFirstCR(s) ==
  IF s = <<>> THEN s
  ELSE IF Head(s) = "CR" THEN Tail(s)
  ELSE <<Head(s)>> \o DropFirstCR(Tail(s))

\* s.replace(/\r/g, '')
RemoveCR(s) == SelectSeq(s, IsNotCR)

TrimOnly(v) == Trim(StringOrEmpty(v))

trimSafe(v) == Trim(ReplaceCRLF(StringOrEmpty(v)))

sanitizeMessage(v) == Trim(RemoveCR(StringOrEmpty(v)))

\* sanitizeInput reads obj.name: a TypeError when obj is undefined
sanitizeThrows(obj) == "name" \notin DOMAIN obj

sanitizeInput(obj) ==
  [name    |-> Str(trimSafe(obj.name)),
   email   |-> Str(trimSafe(obj.email)),
   message |-> Str(sanitizeMessage(obj.message))]

-----------------------------------------------------------------------------
(* contactSchema: Joi.object({ name, email, message }) *)

NameMax == 120

MessageMax == 5000

\* the fields of the schema, in the order Joi visits them
SchemaKeys == <<"name", "email", "message">>

CountOf(s, c) == Cardinality({i \in 1..Len(s) : s[i] = c})

\* a dot-separated part: no empty label, so no leading, trailing or double dot
DotsOk(s) ==
  /\ s # <<>>
  /\ s[1] # "." /\ s[Len(s)] # "."
  /\ \A i \in 1..(Len(s) - 1) : ~(s[i] = "." /\ s[i + 1] = ".")

\* Joi.string().email({ tlds: { allow: false } }): one "@", a non-empty local
\* part, a domain of at least two labels, no whitespace anywhere
IsEmail(s) ==
  /\ CountOf(s, "@") = 1
  /\ \A i \in 1..Len(s) : s[i] \notin Whitespace
  /\ LET at == CHOOSE i \in 1..Len(s) : s[i] = "@"
         local == SubSeq(s, 1, at - 1)
         domain == SubSeq(s, at + 1, Len(s))
     IN  /\ DotsOk(local)
         /\ DotsOk(domain)
         /\ CountOf(domain, ".") >= 1

\* the error codes of Joi.string().min(lo).max(hi).required() for one value
StringErrors(v, lo, hi) ==
  IF v.t = "undefined" THEN <<"any.required">>
  ELSE IF v.t # "string" THEN <<"string.base">>
  ELSE IF v.s = <<>> THEN <<"string.empty">>
  ELSE (IF Len(v.s) < lo THEN <<"string.min">> ELSE <<>>)
       \o (IF Len(v.s) > hi THEN <<"string.max">> ELSE <<>>)

\* the error codes of Joi.string().email(...).required() for one value
EmailErrors(v) ==
  IF v.t = "undefined" THEN <<"any.required">>
  ELSE IF v.t # "string" THEN <<"string.base">>
  ELSE IF v.s = <<>> THEN <<"string.empty">>
  ELSE IF ~IsEmail(v.s) THEN <<"string.email">>
  ELSE <<>>

FieldErrors(body, key) ==
  IF key = "name" THEN StringErrors(body.name, 1, NameMax)
  ELSE IF key = "email" THEN EmailErrors(body.email)
  ELSE StringErrors(body.message, 1, MessageMax)

Detail(key, code) == [message |-> code, path |-> <<key>>]

RECURSIVE DetailsFrom(_, _)
DetailsFrom(body, k) ==
  IF k > Len(SchemaKeys) THEN <<>>
  ELSE LET errs == FieldErrors(body, SchemaKeys[k])
       IN  [i \in 1..Len(errs) |-> Detail(SchemaKeys[k], errs[i])]
           \o DetailsFrom(body, k + 1)

\* stripUnknown: the value keeps the schema's keys only
StripUnknown(body) ==
  [name |-> body.name, email |-> body.email, message |-> body.message]

\* contactSchema.validate(body, { abortEarly, stripUnknown: true })
\* the object schema is not required(): an undefined body passes as undefined
JoiValidate(body, abortEarly) ==
  LET all == IF body.defined THEN DetailsFrom(body, 1) ELSE <<>>
  IN  [error |-> IF abortEarly /\ all # <<>> THEN <<Head(all)>> ELSE all,
       value |-> IF body.defined THEN StripUnknown(body) ELSE Undefined]

validateAbortEarly(body) == JoiValidate(body, TRUE)

validateRejectUnknown(body) ==
  LET v == JoiValidate(body, FALSE)
      unknown ==
        (IF body.website.t # "undefined"
         THEN <<Detail("website", "object.unknown")>> ELSE <<>>)
        \o (IF body.extra.t # "undefined"
            THEN <<Detail("extra", "object.unknown")>> ELSE <<>>)
  IN  [error |-> v.error \o unknown, value |-> v.value]

\* server.js: contactSchema.validate(req.body, { abortEarly: false, stripUnknown: true })
validate(body) == JoiValidate(body, FALSE)

\* the schema passes: validate returns no error
SchemaOk(body) == DetailsFrom(body, 1) = <<>>

-----------------------------------------------------------------------------
(* Honeypot check of the handler; HONEYPOT_FIELD defaults to "website" *)

neverTriggered(body) == FALSE

honeypotNoTrim(body) ==
  body.website.t # "undefined" /\ ToString(body.website) # <<>>

honeypotTriggered(body) ==
  body.website.t # "undefined" /\ Trim(ToString(body.website)) # <<>>

-----------------------------------------------------------------------------
(* rateLimit.js: RateLimiterMemory({ points, duration }), a fixed window *)

\* RATE_LIMIT_POINTS, default 5
points == 5

\* RATE_LIMIT_DURATION in seconds, default 60
duration == 60

\* no record stored for a key
NoRecord == [present |-> FALSE, value |-> 0, expiresAt |-> 0]

\* the store's set(key, value, duration): a new window starting at time t
StoreSet(store, key, value, t) ==
  [store EXCEPT ![key] = [present |-> TRUE, value |-> value, expiresAt |-> t + duration]]

IncrbyInclusive(store, key, t) ==
  IF store[key].present /\ store[key].expiresAt - t >= 0
  THEN [store EXCEPT ![key].value = @ + 1]
  ELSE StoreSet(store, key, 1, t)

IncrbyShared(store, key, t) ==
  [k \in DOMAIN store |->
     IF store[k].present /\ store[k].expiresAt - t > 0
     THEN [store[k] EXCEPT !.value = @ + 1]
     ELSE [present |-> TRUE, value |-> 1, expiresAt |-> t + duration]]

IncrbySliding(store, key, t) ==
  IF store[key].present /\ store[key].expiresAt - t > 0
  THEN [store EXCEPT ![key] = [present |-> TRUE, value |-> @.value + 1,
                               expiresAt |-> t + duration]]
  ELSE StoreSet(store, key, 1, t)

\* the store's incrby(key, 1, duration) at time t: count inside a live window,
\* otherwise start a new window with this call as its first
Incrby(store, key, t) ==
  IF store[key].present /\ store[key].expiresAt - t > 0
  THEN [store EXCEPT ![key].value = @ + 1]
  ELSE StoreSet(store, key, 1, t)

allowOneMore(consumed) == consumed > points + 1

\* consume rejects when the points consumed in the window exceed the capacity
overLimit(consumed) == consumed > points

\* limiter.consume(key) at time t: the store after it, and whether it rejected
consume(store, key, t) ==
  LET after == Incrby(store, key, t)
  IN  [store |-> after, rejected |-> overLimit(after[key].value)]

consumeReadThenWrite(stage, store, key, t, consumed) ==
  IF stage = "call"
  THEN [store |-> store,
        consumed |-> IF store[key].present /\ store[key].expiresAt - t > 0
                     THEN store[key].value ELSE 0,
        rejected |-> FALSE]
  ELSE [store |-> [store EXCEPT ![key] =
                     [present |-> TRUE, value |-> consumed + 1,
                      expiresAt |-> IF store[key].present /\ store[key].expiresAt - t > 0
                                    THEN store[key].expiresAt ELSE t + duration]],
        consumed |-> consumed + 1,
        rejected |-> overLimit(consumed + 1)]

\* await limiter.consume(key) in two stages.  "call": consume runs to its end
\* inside the call, store update and verdict included, and returns a settled
\* promise.  "settle": the middleware resumes with the verdict of that promise,
\* whose result holds the points consumed at the call; the store is not touched
consumeAwait(stage, store, key, t, consumed) ==
  IF stage = "call"
  THEN LET c == consume(store, key, t)
       IN  [store |-> c.store, consumed |-> c.store[key].value,
            rejected |-> c.rejected]
  ELSE [store |-> store, consumed |-> consumed, rejected |-> overLimit(consumed)]

\* req.ip of express: with 'trust proxy' set to 1, the address the nearest
\* proxy put in X-Forwarded-For when the header is there, otherwise the
\* address of the connection.  "" stands for no address and for no header
reqIp(trust, conn, xff) == IF trust /\ xff # "" THEN xff ELSE conn

\* req.ip || req.headers['x-forwarded-for'] || req.connection?.remoteAddress || 'global'
clientKey(trust, conn, xff) ==
  LET ip == reqIp(trust, conn, xff)
  IN  IF ip # "" THEN ip
      ELSE IF xff # "" THEN xff
      ELSE IF conn # "" THEN conn
      ELSE "global"

-----------------------------------------------------------------------------
(* Responses of the service *)

R202(id) == [status |-> 202, body |-> [success |-> TRUE, id |-> id]]

R400(details) ==
  [status |-> 400, body |-> [error |-> "validation_error", details |-> details]]

R429 == [status |-> 429, body |-> [error |-> "rate_limited"]]

R500SendFailed == [status |-> 500, body |-> [error |-> "send_failed"]]

\* the error-handling middleware: app.use((err, req, res, next) => ...)
R500Internal == [status |-> 500, body |-> [error |-> "internal_error"]]

\* GET on the health path: { status: 'ok', uptime: process.uptime(), version }
R200Health(uptime) ==
  [status |-> 200, body |-> [status |-> "ok", uptime |-> uptime, version |-> "1.0.0"]]

\* the not-found handler: app.use((req, res) => ...)
R404 == [status |-> 404, body |-> [error |-> "not_found"]]

\* no response sent yet
NoResponse == [status |-> 0, body |-> [sent |-> FALSE]]

\* a || b of JavaScript, on the model's values
Falsy(v) == v.t \in {"undefined", "null"} \/ (v.t = "string" /\ v.s = <<>>)

Or(a, b) == IF Falsy(a) THEN b ELSE a

ResultIdMessageIdOnly(sendResult) == Or(sendResult.messageId, Null)

\* sendResult?.messageId || sendResult?.id || null
ResultId(sendResult) == Or(Or(sendResult.messageId, sendResult.id), Null)

-----------------------------------------------------------------------------
(* sendContactEmail of email.js: the notification sink.  It settles later   *)
(* with a result or an error; in simulate mode (no provider configured) it  *)
(* reports success without an identifier.                                   *)

SinkModes == {"sendgrid", "resend", "smtp", "simulate"}

NoIds == [messageId |-> Undefined, id |-> Undefined]

\* what each channel resolves with: the mail library and the first provider
\* name their identifier messageId, the second provider names it id
SinkResults(mode) ==
  IF mode = "simulate" THEN {NoIds}
  ELSE IF mode = "resend" THEN {[messageId |-> Undefined, id |-> Str(<<"r", "1">>)]}
  ELSE IF mode = "sendgrid" THEN {[messageId |-> Str(<<"g", "1">>), id |-> Undefined]}
  ELSE {[messageId |-> Str(<<"m", "1">>), id |-> Undefined]}

SinkErrors(mode) ==
  IF mode = "simulate" THEN {} ELSE {"ECONNREFUSED", "EAUTH"}

selectChannelResendFirst(e) ==
  IF e.RESEND_API_KEY THEN "resend"
  ELSE IF e.SENDGRID_API_KEY THEN "sendgrid"
  ELSE IF e.SMTP THEN "smtp"
  ELSE "simulate"

\* the one channel the sink uses, by precedence over the environment
selectChannel(e) ==
  IF e.SENDGRID_API_KEY THEN "sendgrid"
  ELSE IF e.RESEND_API_KEY THEN "resend"
  ELSE IF e.SMTP THEN "smtp"
  ELSE "simulate"

-----------------------------------------------------------------------------
(* The environment and the build the service starts with *)

\* the variables of the environment: whether a provider key or the SMTP
\* credentials are set, and the values of the proxy-trust variables
DefaultEnv ==
  [SENDGRID_API_KEY |-> FALSE, RESEND_API_KEY |-> FALSE, SMTP |-> FALSE,
   TRUST_PROXY |-> Undefined, REACT_APP_TRUST_PROXY |-> Undefined]

\* String(TRUST_PROXY || REACT_APP_TRUST_PROXY || '1') === '1'
trustProxy(e) ==
  ToString(Or(Or(e.TRUST_PROXY, e.REACT_APP_TRUST_PROXY), Str(<<"1">>))) = <<"1">>

\* the major versions of the express package the import can resolve to
ExpressVersions == {"4", "5"}

\* express 5 passes a rejected handler promise to next(err); express 4 does
\* not look at the promise an async handler returns
forwardsRejections(express) == express = "5"

\* what createApp() fixes once, at start
Startup(e, express) ==
  [vars |-> e, express |-> express, sink |-> selectChannel(e),
   trustProxy |-> trustProxy(e)]

-----------------------------------------------------------------------------
(* The route handler of POST /contact, after the limiter let the request in *)

\* the try branch: the response once the sink's promise has resolved
onSendResult(sendResult) == R202(ResultId(sendResult))

onSendErrorLeaks(err) ==
  [status |-> 500, body |-> [error |-> "send_failed", message |-> err]]

\* the catch branch: the response once the sink's promise has rejected
onSendError(err) == R500SendFailed

NoPayload == [name |-> Undefined, email |-> Undefined, message |-> Undefined]

\* what the synchronous part of the handler does with a body: the steps it
\* ran, the response it sent (if any) and the payload it handed to the sink
\* threw: the handler's promise rejected at the last step of ran, before any
\* response was sent
Thrown(steps) ==
  [ran |-> steps, resp |-> NoResponse, sinkCalls |-> 0, payload |-> NoPayload,
   threw |-> TRUE]

handlerSkipValidation(body) ==
  IF body.website.t # "undefined" /\ StringThrows(body.website)
  THEN Thrown({"honeypot"})
  ELSE IF honeypotTriggered(body)
  THEN [ran |-> {"honeypot"}, resp |-> R202(Null),
        sinkCalls |-> 0, payload |-> NoPayload, threw |-> FALSE]
  ELSE [ran |-> {"honeypot", "sanitize", "sink"}, resp |-> NoResponse,
        sinkCalls |-> 1, payload |-> sanitizeInput(StripUnknown(body)),
        threw |-> FALSE]

handlerValidateFirst(body) ==
  LET v == validate(body)
  IN  IF v.error # <<>>
      THEN [ran |-> {"validate"}, resp |-> R400(v.error),
            sinkCalls |-> 0, payload |-> NoPayload, threw |-> FALSE]
      ELSE IF body.website.t # "undefined" /\ StringThrows(body.website)
      THEN Thrown({"validate", "honeypot"})
      ELSE IF honeypotTriggered(body)
      THEN [ran |-> {"validate", "honeypot"}, resp |-> R202(Null),
            sinkCalls |-> 0, payload |-> NoPayload, threw |-> FALSE]
      ELSE IF sanitizeThrows(v.value)
      THEN Thrown({"validate", "honeypot", "sanitize"})
      ELSE [ran |-> {"honeypot", "validate", "sanitize", "sink"},
            resp |-> NoResponse,
            sinkCalls |-> 1, payload |-> sanitizeInput(v.value),
            threw |-> FALSE]

handler(body) ==
  IF body.website.t # "undefined" /\ StringThrows(body.website)
  THEN Thrown({"honeypot"})
  ELSE IF honeypotTriggered(body)
  THEN [ran |-> {"honeypot"}, resp |-> R202(Null),
        sinkCalls |-> 0, payload |-> NoPayload, threw |-> FALSE]
  ELSE LET v == validate(body)
       IN  IF v.error # <<>>
           THEN [ran |-> {"honeypot", "validate"}, resp |-> R400(v.error),
                 sinkCalls |-> 0, payload |-> NoPayload, threw |-> FALSE]
           ELSE IF sanitizeThrows(v.value)
           THEN Thrown({"honeypot", "validate", "sanitize"})
           ELSE [ran |-> {"honeypot", "validate", "sanitize", "sink"},
                 resp |-> NoResponse,
                 sinkCalls |-> 1, payload |-> sanitizeInput(v.value),
                 threw |-> FALSE]

middlewareAfterHandler(store, key, t, body) ==
  LET c == consume(store, key, t)
      h == handler(body)
  IN  IF h.sinkCalls = 0
      THEN [store |-> store, allowed |-> TRUE,
            ran |-> h.ran, resp |-> h.resp,
            sinkCalls |-> 0, payload |-> NoPayload, threw |-> h.threw]
      ELSE IF c.rejected
      THEN [store |-> c.store, allowed |-> FALSE,
            ran |-> {"limiter"}, resp |-> R429,
            sinkCalls |-> 0, payload |-> NoPayload, threw |-> FALSE]
      ELSE [store |-> c.store, allowed |-> TRUE,
            ran |-> {"limiter"} \cup h.ran, resp |-> h.resp,
            sinkCalls |-> h.sinkCalls, payload |-> h.payload, threw |-> h.threw]

\* rateLimiterMiddleware followed by the handler (next()) or by the 429
middlewareFallsThrough(store, key, t, body) ==
  LET c == consume(store, key, t)
      h == handler(body)
  IN  [store |-> c.store, allowed |-> ~c.rejected,
       ran |-> {"limiter"} \cup h.ran, resp |-> h.resp,
       sinkCalls |-> h.sinkCalls, payload |-> h.payload, threw |-> h.threw]

rateLimiterMiddleware(store, key, t, body) ==
  LET c == consume(store, key, t)
      h == handler(body)
  IN  IF c.rejected
      THEN [store |-> c.store, allowed |-> FALSE,
            ran |-> {"limiter"}, resp |-> R429,
            sinkCalls |-> 0, payload |-> NoPayload, threw |-> FALSE]
      ELSE [store |-> c.store, allowed |-> TRUE,
            ran |-> {"limiter"} \cup h.ran, resp |-> h.resp,
            sinkCalls |-> h.sinkCalls, payload |-> h.payload, threw |-> h.threw]

\* the middleware after its await: the catch (429) or next(), the handler
afterConsume(store, rejected, body) ==
  LET h == handler(body)
  IN  IF rejected
      THEN [store |-> store, allowed |-> FALSE,
            ran |-> {"limiter"}, resp |-> R429,
            sinkCalls |-> 0, payload |-> NoPayload, threw |-> FALSE]
      ELSE [store |-> store, allowed |-> TRUE,
            ran |-> {"limiter"} \cup h.ran, resp |-> h.resp,
            sinkCalls |-> h.sinkCalls, payload |-> h.payload, threw |-> h.threw]

-----------------------------------------------------------------------------
(* Bounds and inputs *)

MaxTime == 120

MaxConsumed == 7

MaxPending == 1

\* the clock advances by half a window
TickSteps == {duration \div 2}

Keys == {"ip1", "ip2"}

Jane == <<"J", "a", "n", "e">>

JaneAddr == <<"j", "@", "e", ".", "c">>

NotAnEmail == <<"n", "o", "t", "-", "a", "n", "-", "e", "m", "a", "i", "l">>

Hello == <<"H", "i", "!">>

\* one character more than the schema allows in a name
LongName == [i \in 1..(NameMax + 1) |-> "x"]

Names == {Str(<<>>), Str(Jane), Str(<<"SP">>), Str(LongName)}

Emails == {Str(NotAnEmail), Str(JaneAddr)}

Messages == {Str(<<>>), Str(Hello)}

Honeypots == {Undefined, Str(<<"SP">>), Str(<<"b", "o", "t">>)}

\* a parsed body: the schema's fields, the honeypot field and one field the
\* schema does not know (absent here)
Body(n, e, m, h) ==
  [name |-> n, email |-> e, message |-> m, website |-> h, extra |-> Undefined,
   defined |-> TRUE]

\* every combination of the sample field values
Bodies == {Body(n, e, m, h) : n \in Names, e \in Emails, m \in Messages, h \in Honeypots}

\* an invalid submission and a bot's
LimiterBodies ==
  {Body(Str(<<>>), Str(NotAnEmail), Str(<<>>), Undefined),
   Body(Str(Jane), Str(JaneAddr), Str(Hello), Str(<<"b", "o", "t">>))}

-----------------------------------------------------------------------------
(* The portfolio site (frontend_portfolio, App.js): the contact form *)

\* the build-time environment: the variables that are set
NoSiteEnv ==
  [REACT_APP_CONTACT_API_URL |-> <<>>,
   REACT_APP_EMAILJS_PUBLIC_KEY |-> FALSE,
   REACT_APP_EMAILJS_SERVICE_ID |-> FALSE,
   REACT_APP_EMAILJS_TEMPLATE_ID |-> FALSE]

emailEnabledAny(e) ==
  \/ e.REACT_APP_EMAILJS_PUBLIC_KEY
  \/ e.REACT_APP_EMAILJS_SERVICE_ID
  \/ e.REACT_APP_EMAILJS_TEMPLATE_ID

\* emailConfig.enabled
emailEnabled(e) ==
  /\ e.REACT_APP_EMAILJS_PUBLIC_KEY
  /\ e.REACT_APP_EMAILJS_SERVICE_ID
  /\ e.REACT_APP_EMAILJS_TEMPLATE_ID

\* useState({ name: '', email: '', message: '', status: 'idle', error: '' })
contactState ==
  [name |-> "", email |-> "", message |-> "", status |-> "idle", error |-> ""]

\* the delay of the simulated success, in milliseconds
SimulateDelay == 800

\* base.replace(/\/+$/, '')
RECURSIVE StripTrailingSlashes(_)
StripTrailingSlashes(base) ==
  IF base # <<>> /\ base[Len(base)] = "/"
  THEN StripTrailingSlashes(SubSeq(base, 1, Len(base) - 1))
  ELSE base

\* the request sendContactMessage({ name, email, subject, message }) makes
\* when REACT_APP_CONTACT_API_URL is set; nothing in App.js calls it
sendContactMessage(base, fields) ==
  [url |-> StripTrailingSlashes(base) \o <<"/api/contact/">>, method |-> "POST",
   body |-> [name |-> fields.name, email |-> fields.email,
             subject |-> fields.subject, message |-> fields.message]]

\* the request of the EmailJS REST call, built from the state the handler
\* closed over
emailJsRequest(form) ==
  [url |-> <<"https://api.emailjs.com", "/api/v1.0/email/send">>, method |-> "POST",
   body |-> [from_name |-> form.name, from_email |-> form.email,
             message |-> form.message]]

NoRequestSent == [url |-> <<>>, method |-> "", body |-> [none |-> TRUE]]

\* no lookup made in the rendered document
NoLookup == [text |-> <<>>, matches |-> 0, outcome |-> "none"]

\* nothing submitted yet, nothing looked up; data is ./data/projects.json
UiIdle ==
  [cfg |-> NoSiteEnv, form |-> contactState, ops |-> <<>>,
   net |-> NoRequestSent, netCount |-> 0, submits |-> 0, via |-> "none",
   data |-> <<>>, lookup |-> NoLookup]

-----------------------------------------------------------------------------
(* State *)

NoBody == Body(Undefined, Undefined, Undefined, Undefined)

NoRequest ==
  [kind |-> "none", key |-> "", body |-> NoBody, allowed |-> FALSE, ran |-> {},
   sinkCalls |-> 0, payload |-> NoPayload, resp |-> NoResponse, logged |-> "",
   fault |-> FALSE, channel |-> "none", sendResult |-> NoIds,
   addr |-> "", xff |-> "", consumed |-> 0]

\* granted: per key, the requests the limiter let through in the key's window
NoDecision ==
  [key |-> "", prev |-> 0, allowed |-> FALSE, granted |-> [k \in Keys |-> 0],
   keep |-> 0, times |-> [k \in Keys |-> <<>>]]

\* the last n elements of a sequence
LastN(s, n) == IF Len(s) <= n THEN s ELSE SubSeq(s, Len(s) - n + 1, Len(s))

\* history: the times of the last `keep` granted calls of each key
Stamp(times, k, t, allowed, keep) ==
  IF k \in DOMAIN times /\ allowed
  THEN [times EXCEPT ![k] = LastN(Append(@, t), keep)]
  ELSE times

\* the count of granted after a verdict for key k
Granted(g, k, newWindow, allowed) ==
  IF k \notin DOMAIN g THEN g
  ELSE [g EXCEPT ![k] = (IF newWindow THEN 0 ELSE @) + (IF allowed THEN 1 ELSE 0)]

SanIdle == [pc |-> "idle", x |-> NoPayload, once |-> NoPayload, twice |-> NoPayload]

PairIdle == [pc |-> "idle", body |-> NoBody, bait |-> Undefined,
             filled |-> NoResponse, clear |-> NoResponse]

\* no provider key, SMTP credentials or none, the proxy-trust variables unset
CoreEnvs == {Startup([DefaultEnv EXCEPT !.SMTP = smtp], "4") : smtp \in BOOLEAN}

Init ==
  /\ env \in CoreEnvs
  /\ proc = "up"
  /\ now = 0
  /\ limiter = [k \in Keys |-> NoRecord]
  /\ pending = <<>>
  /\ last = NoRequest
  /\ lim = NoDecision
  /\ san = SanIdle
  /\ pair = PairIdle
  /\ ui = UiIdle

RemoveAt(q, i) == SubSeq(q, 1, i - 1) \o SubSeq(q, i + 1, Len(q))

\* POST /contact over a connection from address conn, with X-Forwarded-For
\* header xff and body b: the limiter middleware under the key it derives,
\* then the handler up to its response or to its await of the sink
\* a fault the handler throws reaches the error-handling middleware when the
\* router forwards rejections; otherwise the rejection is unhandled: nothing
\* answers the request, and the process goes on or exits, as Node is set up
\* the request as the service leaves it after outcome r of the middleware
Handled(k, conn, xff, b, r) ==
  LET caught == r.threw /\ forwardsRejections(env.express)
  IN  [kind |-> "contact", key |-> k, body |-> b,
       allowed |-> r.allowed, ran |-> r.ran,
       sinkCalls |-> r.sinkCalls, payload |-> r.payload,
       resp |-> IF caught THEN R500Internal ELSE r.resp,
       logged |-> IF caught THEN "Unhandled error"
                  ELSE IF r.allowed /\ ~r.threw /\ honeypotTriggered(b)
                  THEN "Honeypot triggered; dropping submission" ELSE "",
       fault |-> r.threw,
       channel |-> IF r.sinkCalls > 0 THEN env.sink ELSE "none",
       sendResult |-> NoIds, addr |-> conn, xff |-> xff,
       consumed |-> r.store[k].value]

PostFrom(conn, xff, b) ==
  LET k == clientKey(env.trustProxy, conn, xff)
      r == rateLimiterMiddleware(limiter, k, now, b)
      req == Handled(k, conn, xff, b, r)
  IN  /\ proc = "up"
      /\ r.store[k].value <= MaxConsumed
      /\ r.sinkCalls > 0 => Len(pending) < MaxPending
      /\ limiter' = r.store
      /\ lim' = [key |-> k, prev |-> limiter[k].value, allowed |-> r.allowed,
                 granted |-> Granted(lim.granted, k, r.store[k].value = 1, r.allowed),
                 keep |-> lim.keep,
                 times |-> Stamp(lim.times, k, now, r.allowed, lim.keep)]
      /\ last' = req
      /\ pending' = IF r.sinkCalls > 0 THEN Append(pending, req) ELSE pending
      /\ proc' \in IF r.threw /\ ~forwardsRejections(env.express)
                    THEN {"up", "crashed"} ELSE {"up"}
      /\ UNCHANGED <<ui, env, now, san, pair>>

\* POST /contact straight from the client at address k, no forwarding header
PostContact(k, b) == PostFrom(k, "", b)

\* the sink's promise resolves for the i-th suspended request
SinkResolve(i, result) ==
  /\ proc = "up"
  /\ i \in 1..Len(pending)
  /\ pending[i].sinkCalls > 0
  /\ last' = [pending[i] EXCEPT !.resp = onSendResult(result), !.sendResult = result]
  /\ pending' = RemoveAt(pending, i)
  /\ UNCHANGED <<ui, proc, env, now, limiter, lim, san, pair>>

SinkRejectRetry(i, err) ==
  /\ proc = "up"
  /\ i \in 1..Len(pending)
  /\ pending[i].sinkCalls > 0
  /\ last' = [pending[i] EXCEPT !.sinkCalls = @ + 1, !.logged = err]
  /\ pending' = [pending EXCEPT ![i].sinkCalls = @ + 1, ![i].logged = err]
  /\ UNCHANGED <<ui, proc, env, now, limiter, lim, san, pair>>

\* the sink's promise rejects for the i-th suspended request
SinkReject(i, err) ==
  /\ proc = "up"
  /\ i \in 1..Len(pending)
  /\ pending[i].sinkCalls > 0
  /\ last' = [pending[i] EXCEPT !.resp = onSendError(err), !.logged = err]
  /\ pending' = RemoveAt(pending, i)
  /\ UNCHANGED <<ui, proc, env, now, limiter, lim, san, pair>>

\* time passes
Tick(d) ==
  /\ now + d <= MaxTime
  /\ now' = now + d
  /\ UNCHANGED <<ui, proc, env, limiter, pending, last, lim, san, pair>>

\* one client, every sample body, no passage of time
Next ==
  \/ \E b \in Bodies : PostContact("ip1", b)
  \/ \E i \in 1..MaxPending, r \in SinkResults(env.sink) : SinkResolve(i, r)
  \/ \E i \in 1..MaxPending, e \in SinkErrors(env.sink) : SinkReject(i, e)

Spec == Init /\ [][Next]_vars

\* several clients over several windows, with submissions that end in the handler
NextLimiter ==
  \/ \E k \in Keys, b \in LimiterBodies : PostContact(k, b)
  \/ \E d \in TickSteps : Tick(d)

SpecLimiter == Init /\ [][NextLimiter]_vars

-----------------------------------------------------------------------------
(* sanitizeInput as a function: applied to an input, then to its own result *)

MaxStrLen == 4

SanChars == {"a", "SP", "CR", "LF"}

SeqsUpTo(n) == UNION {[1..m -> SanChars] : m \in 0..n}

\* every string of up to MaxStrLen characters, and the two missing values
WideValues == {Str(s) : s \in SeqsUpTo(MaxStrLen)} \cup {Undefined, Null}

NarrowValues == {Undefined, Str(<<"SP", "a", "CR", "LF", "a", "LF">>)}

SanInputs ==
  {[name |-> w, email |-> u, message |-> v] :
      w \in WideValues, u \in NarrowValues, v \in NarrowValues}
  \cup {[name |-> u, email |-> w, message |-> v] :
      w \in WideValues, u \in NarrowValues, v \in NarrowValues}
  \cup {[name |-> u, email |-> v, message |-> w] :
      w \in WideValues, u \in NarrowValues, v \in NarrowValues}

InitSanitize ==
  /\ env = Startup(DefaultEnv, "4")
  /\ proc = "up"
  /\ now = 0
  /\ limiter = [k \in Keys |-> NoRecord]
  /\ pending = <<>>
  /\ last = NoRequest
  /\ lim = NoDecision
  /\ pair = PairIdle
  /\ ui = UiIdle
  /\ san \in {[pc |-> "input", x |-> o, once |-> NoPayload, twice |-> NoPayload] :
                o \in SanInputs}

\* clean = sanitizeInput(x)
SanitizeOnce ==
  /\ san.pc = "input"
  /\ san' = [san EXCEPT !.pc = "once", !.once = sanitizeInput(san.x)]
  /\ UNCHANGED <<ui, proc, env, now, limiter, pending, last, lim, pair>>

\* sanitizeInput(clean)
SanitizeTwice ==
  /\ san.pc = "once"
  /\ san' = [san EXCEPT !.pc = "twice", !.twice = sanitizeInput(san.once)]
  /\ UNCHANGED <<ui, proc, env, now, limiter, pending, last, lim, pair>>

NextSanitize == SanitizeOnce \/ SanitizeTwice

SpecSanitize == InitSanitize /\ [][NextSanitize]_vars

-----------------------------------------------------------------------------
(* Two requests from one client and one limiter state that differ only in   *)
(* the honeypot field: b with the field filled by bait, and b itself        *)

\* the response of a request whose handling r ends with the sink settling
\* with outcome o
FinalResponse(r, o) ==
  IF r.resp # NoResponse THEN r.resp
  ELSE IF o.ok THEN onSendResult(o.result) ELSE onSendError(o.err)

SinkOutcomes(mode) ==
  {[ok |-> TRUE, result |-> r, err |-> ""] : r \in SinkResults(mode)}
  \cup {[ok |-> FALSE, result |-> NoIds, err |-> e] : e \in SinkErrors(mode)}

PostPair(k, b, bait, o) ==
  LET filled == rateLimiterMiddleware(limiter, k, now, [b EXCEPT !.website = bait])
      clear == rateLimiterMiddleware(limiter, k, now, b)
  IN  /\ ~honeypotTriggered(b)
      /\ honeypotTriggered([b EXCEPT !.website = bait])
      /\ clear.store[k].value <= MaxConsumed
      /\ limiter' = clear.store
      /\ pair' = [pc |-> "done", body |-> b, bait |-> bait,
                  filled |-> FinalResponse(filled, o),
                  clear |-> FinalResponse(clear, o)]
      /\ UNCHANGED <<ui, proc, env, now, pending, last, lim, san>>

NextPair ==
  \E b \in Bodies, bait \in Honeypots, o \in SinkOutcomes(env.sink) :
      PostPair("ip1", b, bait, o)

SpecPair == Init /\ [][NextPair]_vars

-----------------------------------------------------------------------------
(* Faults: bodies the handler throws on, under either version of express *)

\* req.body when the request carried no body
UndefinedBody ==
  [Body(Undefined, Undefined, Undefined, Undefined) EXCEPT !.defined = FALSE]

\* express.json() and express.urlencoded(): the parsers of express 4 set
\* req.body to {} when they parse nothing, those of express 5 leave it undefined
bodyParser(express, sent) ==
  IF ~sent.defined /\ express = "4"
  THEN Body(Undefined, Undefined, Undefined, Undefined)
  ELSE sent

\* a genuine submission, two whose honeypot field cannot be converted to a
\* string, and a request without a body
FaultBodies ==
  {Body(Str(Jane), Str(JaneAddr), Str(Hello), Undefined),
   Body(Str(Jane), Str(JaneAddr), Str(Hello), Unprintable),
   Body(Str(<<>>), Str(NotAnEmail), Str(<<>>), Unprintable),
   UndefinedBody}

\* POST /contact with a body express.json() cannot parse: the parser calls
\* next(err), which skips the limiter and the handler and reaches the
\* error-handling middleware
PostMalformed(k) ==
  /\ proc = "up"
  /\ last' = [NoRequest EXCEPT !.kind = "malformed", !.key = k, !.fault = TRUE,
                               !.resp = R500Internal, !.logged = "Unhandled error"]
  /\ UNCHANGED <<ui, proc, env, now, limiter, pending, lim, san, pair>>

InitFaults ==
  /\ env \in {Startup([DefaultEnv EXCEPT !.SMTP = TRUE], v) : v \in ExpressVersions}
  /\ proc = "up"
  /\ now = 0
  /\ limiter = [k \in Keys |-> NoRecord]
  /\ pending = <<>>
  /\ last = NoRequest
  /\ lim = NoDecision
  /\ san = SanIdle
  /\ pair = PairIdle
  /\ ui = UiIdle

NextFaults ==
  \/ \E sent \in FaultBodies : PostContact("ip1", bodyParser(env.express, sent))
  \/ PostMalformed("ip1")
  \/ \E i \in 1..MaxPending, r \in SinkResults(env.sink) : SinkResolve(i, r)
  \/ \E i \in 1..MaxPending, e \in SinkErrors(env.sink) : SinkReject(i, e)

SpecFaults == InitFaults /\ [][NextFaults]_vars

-----------------------------------------------------------------------------
(* Channels: every combination of provider keys and SMTP credentials *)

ChannelEnvs ==
  {[DefaultEnv EXCEPT !.SENDGRID_API_KEY = sg, !.RESEND_API_KEY = rs, !.SMTP = smtp] :
      sg \in BOOLEAN, rs \in BOOLEAN, smtp \in BOOLEAN}

\* a genuine submission and a bot's
ChannelBodies ==
  {Body(Str(Jane), Str(JaneAddr), Str(Hello), Undefined),
   Body(Str(Jane), Str(JaneAddr), Str(Hello), Str(<<"b", "o", "t">>))}

InitChannel ==
  /\ env \in {Startup(e, "4") : e \in ChannelEnvs}
  /\ proc = "up"
  /\ now = 0
  /\ limiter = [k \in Keys |-> NoRecord]
  /\ pending = <<>>
  /\ last = NoRequest
  /\ lim = NoDecision
  /\ san = SanIdle
  /\ pair = PairIdle
  /\ ui = UiIdle

NextChannel ==
  \/ \E b \in ChannelBodies : PostContact("ip1", b)
  \/ \E i \in 1..MaxPending, r \in SinkResults(env.sink) : SinkResolve(i, r)
  \/ \E i \in 1..MaxPending, e \in SinkErrors(env.sink) : SinkReject(i, e)

SpecChannel == InitChannel /\ [][NextChannel]_vars

-----------------------------------------------------------------------------
(* Client keys: requests with and without a connection address and a        *)
(* forwarding header, under every setting of the proxy-trust variables      *)

TrustEnvs ==
  {[DefaultEnv EXCEPT !.TRUST_PROXY = t, !.REACT_APP_TRUST_PROXY = rt] :
      t \in {Undefined, Str(<<"0">>), Str(<<"1">>)}, rt \in {Undefined, Str(<<"1">>)}}

\* the keys the limiter can see: the addresses and the constant bucket
KeyBuckets == Keys \cup {"global"}

InitKey ==
  /\ env \in {Startup(e, "4") : e \in TrustEnvs}
  /\ proc = "up"
  /\ now = 0
  /\ limiter = [k \in KeyBuckets |-> NoRecord]
  /\ pending = <<>>
  /\ last = NoRequest
  /\ lim = NoDecision
  /\ san = SanIdle
  /\ pair = PairIdle
  /\ ui = UiIdle

NextKey ==
  \E conn \in {"", "ip1"}, xff \in {"", "ip2"}, b \in LimiterBodies :
      PostFrom(conn, xff, b)

SpecKey == InitKey /\ [][NextKey]_vars

-----------------------------------------------------------------------------
(* Unknown fields: bodies that carry fields the schema does not name *)

\* a valid and an invalid submission, each with and without an empty honeypot
\* field and a field named neither in the schema nor as the honeypot
ExtraBodies ==
  {[Body(n, Str(JaneAddr), Str(Hello), h) EXCEPT !.extra = x] :
      n \in {Str(Jane), Str(<<>>)},
      h \in {Undefined, Str(<<>>)},
      x \in {Undefined, Str(<<"1">>), Null}}

NextExtra ==
  \/ \E b \in ExtraBodies : PostContact("ip1", b)
  \/ \E i \in 1..MaxPending, r \in SinkResults(env.sink) : SinkResolve(i, r)
  \/ \E i \in 1..MaxPending, e \in SinkErrors(env.sink) : SinkReject(i, e)

SpecExtra == Init /\ [][NextExtra]_vars

-----------------------------------------------------------------------------
(* Concurrent requests inside one window: the middleware is suspended at    *)
(* await limiter.consume(key) while other requests arrive; the clock stands *)
(* still                                                                    *)

MaxInFlight == 2

\* the i-th suspended request waits for the limiter's promise
AwaitsLimiter(i) == i \in 1..Len(pending) /\ pending[i].ran = {}

\* a request arrives: the middleware derives the key and calls consume
Arrive(conn, xff, b) ==
  LET k == clientKey(env.trustProxy, conn, xff)
      c == consumeAwait("call", limiter, k, now, 0)
      req == [NoRequest EXCEPT !.kind = "contact", !.key = k, !.body = b,
                               !.addr = conn, !.xff = xff,
                               !.consumed = c.consumed]
  IN  /\ proc = "up"
      /\ c.store[k].value <= MaxConsumed
      /\ Len(pending) < MaxInFlight
      /\ limiter' = c.store
      /\ pending' = Append(pending, req)
      /\ last' = req
      /\ UNCHANGED <<ui, proc, env, now, lim, san, pair>>

\* the middleware of the i-th suspended request resumes after its await: the
\* catch answers 429, or next() runs the handler
Resume(i) ==
  LET q == pending[i]
      c == consumeAwait("settle", limiter, q.key, now, q.consumed)
      r == afterConsume(c.store, c.rejected, q.body)
      req == [Handled(q.key, q.addr, q.xff, q.body, r) EXCEPT !.consumed = c.consumed]
  IN  /\ proc = "up"
      /\ AwaitsLimiter(i)
      /\ limiter' = c.store
      /\ lim' = [key |-> q.key, prev |-> c.consumed - 1, allowed |-> r.allowed,
                 granted |-> Granted(lim.granted, q.key, FALSE, r.allowed),
                 keep |-> lim.keep,
                 times |-> Stamp(lim.times, q.key, now, r.allowed, lim.keep)]
      /\ last' = req
      /\ pending' = IF r.sinkCalls > 0 THEN [pending EXCEPT ![i] = req]
                    ELSE RemoveAt(pending, i)
      /\ proc' \in IF r.threw /\ ~forwardsRejections(env.express)
                    THEN {"up", "crashed"} ELSE {"up"}
      /\ UNCHANGED <<ui, env, now, san, pair>>

\* an invalid submission
ConcurrentBodies == {Body(Str(<<>>), Str(NotAnEmail), Str(<<>>), Undefined)}

NextConcurrent ==
  \/ \E k \in Keys, b \in ConcurrentBodies : Arrive(k, "", b)
  \/ \E i \in 1..MaxInFlight : Resume(i)

SpecConcurrent == Init /\ [][NextConcurrent]_vars

-----------------------------------------------------------------------------------------------------------------------------------------------------
(* Routes: the health path and unmatched routes beside POST /contact,       *)
(* while a delivery over SMTP is awaited                                    *)

UnmatchedBehindLimiter ==
  /\ proc = "up"
  /\ consume(limiter, "ip1", now).store["ip1"].value <= MaxConsumed
  /\ limiter' = consume(limiter, "ip1", now).store
  /\ last' = [NoRequest EXCEPT !.kind = "unmatched", !.resp = R404]
  /\ UNCHANGED <<ui, proc, env, now, pending, lim, san, pair>>

GetHealthAfterSink ==
  /\ proc = "up"
  /\ pending = <<>>
  /\ last' = [NoRequest EXCEPT !.kind = "health", !.resp = R200Health(now)]
  /\ UNCHANGED <<ui, proc, env, now, limiter, pending, lim, san, pair>>

\* GET on the health path: answered at once by its own handler
GetHealth ==
  /\ proc = "up"
  /\ last' = [NoRequest EXCEPT !.kind = "health", !.resp = R200Health(now)]
  /\ UNCHANGED <<ui, proc, env, now, limiter, pending, lim, san, pair>>

\* a request no route matches (another path, or another method on a known
\* path): it falls through to the not-found handler
Unmatched ==
  /\ proc = "up"
  /\ last' = [NoRequest EXCEPT !.kind = "unmatched", !.resp = R404]
  /\ UNCHANGED <<ui, proc, env, now, limiter, pending, lim, san, pair>>

\* a genuine submission and an invalid one
RouteBodies ==
  {Body(Str(Jane), Str(JaneAddr), Str(Hello), Undefined),
   Body(Str(<<>>), Str(NotAnEmail), Str(<<>>), Undefined)}

InitRoutes ==
  /\ env = Startup([DefaultEnv EXCEPT !.SMTP = TRUE], "4")
  /\ proc = "up"
  /\ now = 0
  /\ limiter = [k \in Keys |-> NoRecord]
  /\ pending = <<>>
  /\ last = NoRequest
  /\ lim = NoDecision
  /\ san = SanIdle
  /\ pair = PairIdle
  /\ ui = UiIdle

\* the submissions come from one client; the other client's are looked at
\* only as steps the service could take
NextRoutes ==
  \/ \E b \in RouteBodies : PostContact("ip1", b)
  \/ GetHealth
  \/ Unmatched
  \/ \E i \in 1..MaxPending, r \in SinkResults(env.sink) : SinkResolve(i, r)
  \/ \E i \in 1..MaxPending, e \in SinkErrors(env.sink) : SinkReject(i, e)

SpecRoutes == InitRoutes /\ [][NextRoutes]_vars

-----------------------------------------------------------------------------
(* One client over several windows, with the times of its granted calls kept *)

\* an invalid submission: the request ends in the handler
WindowBodies == {Body(Str(<<>>), Str(NotAnEmail), Str(<<>>), Undefined)}

InitWindow ==
  /\ env = Startup(DefaultEnv, "4")
  /\ proc = "up"
  /\ now = 0
  /\ limiter = [k \in Keys |-> NoRecord]
  /\ pending = <<>>
  /\ last = NoRequest
  /\ lim = [NoDecision EXCEPT !.keep = 2 * points]
  /\ san = SanIdle
  /\ pair = PairIdle
  /\ ui = UiIdle

NextWindow ==
  \/ \E b \in WindowBodies : PostContact("ip1", b)
  \/ \E d \in TickSteps : Tick(d)

SpecWindow == InitWindow /\ [][NextWindow]_vars

-----------------------------------------------------------------------------
(* The contact form of the site: App.js handleContactChange,
   handleContactSubmit, and the completion of what a submission started *)

(* The rendered document: what App returns (App.js 262-320, and the
   components below it), as the elements that carry text of their own, each
   text a sequence of words *)

El(tag, text) == [tag |-> tag, text |-> text]

navLabels == <<"About", "Skills", "Projects", "Resume", "Contact">>

Header ==
  <<El("a", <<"Skip", "to", "content">>),
    El("a", <<"Your", "Name">>),
    El("span", <<"Software", "Engineer">>)>>
  \o [i \in 1..Len(navLabels) |-> El("a", <<navLabels[i]>>)]
  \o <<El("button", <<"moon">>)>>

Hero ==
  <<El("p", <<"Hello,", "I'm">>),
    El("h1", <<"Your", "Name">>),
    El("p", <<"I'm", "a", "software", "engineer", "specializing", "in",
              "building", "exceptional", "digital", "experiences.", "I",
              "focus", "on", "modern", "web", "apps,", "system", "design,",
              "and", "developer", "experience.">>),
    El("a", <<"View", "Projects">>),
    El("a", <<"Contact", "Me">>)>>

About ==
  <<El("h2", <<"About", "Me">>),
    El("p", <<"I", "am", "a", "passionate", "software", "engineer", "with",
              "experience", "across", "the", "stack", "-", "from", "crafting",
              "responsive", "interfaces", "to", "building", "scalable",
              "backend", "systems.", "I", "love", "clean", "architecture,",
              "resilient", "systems,", "and", "thoughtful", "developer",
              "tooling.">>)>>

skills ==
  <<<<"JavaScript", "(ESNext)">>, <<"TypeScript">>, <<"React">>, <<"Node.js">>,
    <<"Express">>, <<"GraphQL">>, <<"PostgreSQL">>, <<"Docker", "&", "CI/CD">>,
    <<"Testing", "(Jest/RTL)">>, <<"System", "Design">>>>

Skills ==
  <<El("h2", <<"Skills">>)>>
  \o [i \in 1..Len(skills) |-> El("li", skills[i])]
  \o <<El("p", <<"Always", "learning", "and", "adapting", "to", "new",
                 "technologies", "and", "best", "practices.">>)>>

\* one card of the projects grid
ProjectCard(p) ==
  <<El("h3", p.title), El("p", p.description)>>
  \o [i \in 1..Len(p.tech) |-> El("span", p.tech[i])]
  \o (IF p.demo THEN <<El("a", <<"Live", "Demo">>)>> ELSE <<>>)
  \o (IF p.repo THEN <<El("a", <<"Source">>)>> ELSE <<>>)

RECURSIVE ProjectCards(_)
ProjectCards(data) ==
  IF data = <<>> THEN <<>>
  ELSE ProjectCard(Head(data)) \o ProjectCards(Tail(data))

Projects(data) ==
  <<El("h2", <<"Projects">>),
    El("p", <<"A", "selection", "of", "work", "that", "showcases", "problem",
              "solving", "and", "product", "thinking.">>)>>
  \o ProjectCards(data)

ResumeSection ==
  <<El("h2", <<"Resume">>),
    El("p", <<"Download", "a", "copy", "of", "my", "resume", "for", "details",
              "on", "experience", "and", "education.">>),
    El("a", <<"Download", "Resume">>),
    El("a", <<"View", "in", "Browser">>)>>

Contact(state, enabled) ==
  <<El("h2", <<"Contact">>),
    El("p", IF enabled
            THEN <<"Send", "me", "a", "message", "and", "I", "will", "get",
                   "back", "to", "you", "shortly.">>
            ELSE <<"Email", "sending", "is", "not", "configured.", "Submit",
                   "will", "simulate", "success.">>),
    El("label", <<"Name">>), El("label", <<"Email">>), El("label", <<"Message">>),
    El("button", IF state.status = "sending" THEN <<"Sending...">>
                 ELSE <<"Send", "Message">>)>>
  \o (IF state.status = "success" THEN <<El("span", <<"Message", "sent!">>)>> ELSE <<>>)
  \o (IF state.status = "error"
      THEN <<El("span", <<"Failed", "to", "send:", state.error>>)>> ELSE <<>>)

Footer ==
  <<El("span", <<"(c)", "year", "Your", "Name">>),
    El("a", <<"GitHub">>), El("a", <<"LinkedIn">>), El("a", <<"Email">>)>>

\* the body of the document App renders
App(u) ==
  Header \o Hero \o About \o Skills \o Projects(u.data) \o ResumeSection
    \o Contact(u.form, emailEnabled(u.cfg)) \o Footer

\* the i flag of the test's regular expressions: both sides in lower case
LowerCase(w) ==
  CASE w = "About" -> "about" [] w = "Me" -> "me" [] w = "Skills" -> "skills"
    [] w = "Projects" -> "projects" [] w = "Resume" -> "resume"
    [] w = "Contact" -> "contact" [] OTHER -> w

\* the words q occur in text, next to one another, whatever their case
TextMatches(text, q) ==
  \E k \in 0..(Len(text) - Len(q)) :
    \A j \in 1..Len(q) : LowerCase(text[k + j]) = LowerCase(q[j])

matchesOf(doc, q) == {i \in 1..Len(doc) : TextMatches(doc[i].text, q)}

\* screen.getByText(q): the one element whose text matches, and an error
\* when none or several match
getByText(doc, q) ==
  LET n == Cardinality(matchesOf(doc, q))
  IN  [text |-> q, matches |-> n,
       outcome |-> IF n = 1 THEN "found"
                   ELSE IF n = 0 THEN "throws: unable to find"
                   ELSE "throws: multiple elements"]

-----------------------------------------------------------------------------

MaxSubmits == 2
MaxOps == 2

FormValues == {"", "Jane"}
SiteBases == {<<>>, <<"http://api.example", "/">>}

SiteEnvs ==
  {[REACT_APP_CONTACT_API_URL |-> u,
    REACT_APP_EMAILJS_PUBLIC_KEY |-> k,
    REACT_APP_EMAILJS_SERVICE_ID |-> s,
    REACT_APP_EMAILJS_TEMPLATE_ID |-> t] :
     u \in SiteBases, k \in BOOLEAN, s \in BOOLEAN, t \in BOOLEAN}

\* the text of a non-ok EmailJS response, and the message of a failed fetch
ResponseTexts == {"", "quota"}
ErrorMessages == {"", "Failed to fetch"}

\* setContactState((s) => ({ ...s, [name]: value }))
handleContactChange(field, value) ==
  /\ ui' = [ui EXCEPT !.form[field] = value]
  /\ UNCHANGED <<env, now, limiter, pending, last, lim, san, pair, proc>>

\* the same handler behind a submit button that is never disabled
handleContactSubmitNotDisabled ==
  /\ ui.submits < MaxSubmits
  /\ Len(ui.ops) < MaxOps
  /\ ui.form.name # "" /\ ui.form.email # "" /\ ui.form.message # ""
  /\ ui' = IF ~emailEnabled(ui.cfg)
           THEN [ui EXCEPT !.form.status = "sending", !.form.error = "",
                           !.ops = Append(@, [kind |-> "timer", delay |-> SimulateDelay]),
                           !.submits = @ + 1, !.via = "simulate"]
           ELSE [ui EXCEPT !.form.status = "sending", !.form.error = "",
                           !.ops = Append(@, [kind |-> "fetch", delay |-> 0]),
                           !.net = emailJsRequest(ui.form), !.netCount = @ + 1,
                           !.submits = @ + 1, !.via = "emailjs"]
  /\ UNCHANGED <<env, now, limiter, pending, last, lim, san, pair, proc>>

\* the form is submitted: its fields are required and its button is disabled
\* while a submission is being sent
handleContactSubmit ==
  /\ ui.form.status # "sending"
  /\ ui.submits < MaxSubmits
  /\ Len(ui.ops) < MaxOps
  /\ ui.form.name # "" /\ ui.form.email # "" /\ ui.form.message # ""
  /\ ui' = IF ~emailEnabled(ui.cfg)
           THEN [ui EXCEPT !.form.status = "sending", !.form.error = "",
                           !.ops = Append(@, [kind |-> "timer", delay |-> SimulateDelay]),
                           !.submits = @ + 1, !.via = "simulate"]
           ELSE [ui EXCEPT !.form.status = "sending", !.form.error = "",
                           !.ops = Append(@, [kind |-> "fetch", delay |-> 0]),
                           !.net = emailJsRequest(ui.form), !.netCount = @ + 1,
                           !.submits = @ + 1, !.via = "emailjs"]
  /\ UNCHANGED <<env, now, limiter, pending, last, lim, san, pair, proc>>

\* setTimeout(() => setContactState((s) => ({ ...s, status: 'success' })), 800)
TimerFires(i) ==
  /\ i \in 1..Len(ui.ops)
  /\ ui.ops[i].kind = "timer"
  /\ ui' = [ui EXCEPT !.form.status = "success", !.ops = RemoveAt(@, i)]
  /\ UNCHANGED <<env, now, limiter, pending, last, lim, san, pair, proc>>

\* resp.ok: the form is reset and reports success
FetchOk(i) ==
  /\ i \in 1..Len(ui.ops)
  /\ ui.ops[i].kind = "fetch"
  /\ ui' = [ui EXCEPT !.form = [contactState EXCEPT !.status = "success"],
                      !.ops = RemoveAt(@, i)]
  /\ UNCHANGED <<env, now, limiter, pending, last, lim, san, pair, proc>>

\* !resp.ok: throw new Error(text || 'Failed to send message'), caught below
FetchNotOk(i, text) ==
  /\ i \in 1..Len(ui.ops)
  /\ ui.ops[i].kind = "fetch"
  /\ ui' = [ui EXCEPT !.form.status = "error",
                      !.form.error = IF text = "" THEN "Failed to send message" ELSE text,
                      !.ops = RemoveAt(@, i)]
  /\ UNCHANGED <<env, now, limiter, pending, last, lim, san, pair, proc>>

\* fetch rejects: status 'error', error: err?.message || 'Unknown error'
FetchFails(i, message) ==
  /\ i \in 1..Len(ui.ops)
  /\ ui.ops[i].kind = "fetch"
  /\ ui' = [ui EXCEPT !.form.status = "error",
                      !.form.error = IF message = "" THEN "Unknown error" ELSE message,
                      !.ops = RemoveAt(@, i)]
  /\ UNCHANGED <<env, now, limiter, pending, last, lim, san, pair, proc>>

InitForm ==
  /\ env = Startup(DefaultEnv, "4")
  /\ proc = "up"
  /\ now = 0
  /\ limiter = [k \in Keys |-> NoRecord]
  /\ pending = <<>>
  /\ last = NoRequest
  /\ lim = NoDecision
  /\ san = SanIdle
  /\ pair = PairIdle
  /\ ui \in {[UiIdle EXCEPT !.cfg = c] : c \in SiteEnvs}

NextForm ==
  \/ \E f \in {"name", "email", "message"}, v \in FormValues : handleContactChange(f, v)
  \/ handleContactSubmit
  \/ \E i \in 1..MaxOps : TimerFires(i)
  \/ \E i \in 1..MaxOps : FetchOk(i)
  \/ \E i \in 1..MaxOps, t \in ResponseTexts : FetchNotOk(i, t)
  \/ \E i \in 1..MaxOps, m \in ErrorMessages : FetchFails(i, m)

SpecForm == InitForm /\ [][NextForm]_vars

-----------------------------------------------------------------------------

(* The test of the site (App.test.js): render(<App />), then getByText for
   each section's text *)

\* /About Me/i, /Skills/i, /Projects/i, /Resume/i, /Contact/i
TestQueries ==
  {<<"About", "Me">>, <<"Skills">>, <<"Projects">>, <<"Resume">>, <<"Contact">>}

\* contents of ./data/projects.json: no project, or one
ProjectData ==
  {<<>>,
   <<[title |-> <<"Task", "Board">>, description |-> <<"A", "kanban", "board.">>,
      tech |-> <<<<"React">>, <<"Node.js">>>>, demo |-> TRUE, repo |-> TRUE]>>}

\* expect(screen.getByText(q)).toBeInTheDocument()
ExpectText(q) ==
  /\ ui' = [ui EXCEPT !.lookup = getByText(App(ui), q)]
  /\ UNCHANGED <<env, now, limiter, pending, last, lim, san, pair, proc>>

InitRender ==
  /\ env = Startup(DefaultEnv, "4")
  /\ proc = "up"
  /\ now = 0
  /\ limiter = [k \in Keys |-> NoRecord]
  /\ pending = <<>>
  /\ last = NoRequest
  /\ lim = NoDecision
  /\ san = SanIdle
  /\ pair = PairIdle
  /\ ui \in {[UiIdle EXCEPT !.cfg = c, !.data = d] : c \in SiteEnvs, d \in ProjectData}

NextRender == \E q \in TestQueries : ExpectText(q)

SpecRender == InitRender /\ [][NextRender]_vars

-----------------------------------------------------------------------------
(* Properties *)

\* the requests the state holds: the last one acted on and the suspended ones
Requests ==
  {r \in {last} \cup {pending[i] : i \in 1..Len(pending)} : r.kind = "contact"}

Blank(s) == \A i \in 1..Len(s) : s[i] \in Whitespace

\* the honeypot field is absent, empty or blank
HoneypotEmpty(b) ==
  b.website.t = "undefined" \/ (b.website.t = "string" /\ Blank(b.website.s))

\* the honeypot field is present and not empty after trimming
HoneypotFilled(b) == b.website.t = "string" /\ ~Blank(b.website.s)

\* C1 as stated: every POST /contact request with valid name, email and
\* message and an empty or absent honeypot has the sink invoked exactly once
C1_EveryValidRequestReachesSink ==
  \A r \in Requests :
    SchemaOk(r.body) /\ HoneypotEmpty(r.body) => r.sinkCalls = 1

\* C1 amended: every such request that the rate limiter lets through has the
\* sink invoked exactly once, whatever requests came before; one the limiter
\* denies has it invoked not at all
C1_AllowedValidRequestReachesSinkOnce ==
  \A r \in Requests :
    SchemaOk(r.body) /\ HoneypotEmpty(r.body)
      => r.sinkCalls = (IF r.allowed THEN 1 ELSE 0)

C1_Witness ==
  /\ last.kind = "contact" /\ last.allowed /\ limiter[last.key].value >= 3
  /\ SchemaOk(last.body) /\ HoneypotEmpty(last.body) /\ last.body.website.t = "string"
  /\ last.sinkCalls = 1 /\ last.resp.status = 202

\* C2 as stated: a request with the honeypot filled never reaches the sink and
\* is answered 202 { success: true, id: null }
C2_HoneypotAlways202 ==
  \A r \in Requests :
    HoneypotFilled(r.body) => r.sinkCalls = 0 /\ r.resp = R202(Null)

\* C2 amended: a request with the honeypot filled never reaches the sink; it is
\* answered 202 { success: true, id: null } when the rate limiter lets it
\* through, whatever its other fields, and 429 when the limiter denies it
C2_HoneypotNeverSinks ==
  \A r \in Requests :
    HoneypotFilled(r.body)
      => /\ r.sinkCalls = 0
         /\ "sink" \notin r.ran
         /\ r.resp = (IF r.allowed THEN R202(Null) ELSE R429)

C2_Witness ==
  /\ last.kind = "contact" /\ last.allowed /\ limiter[last.key].value >= 2
  /\ HoneypotFilled(last.body) /\ ~SchemaOk(last.body)
  /\ last.sinkCalls = 0 /\ last.resp = R202(Null)

\* C3 as stated: a submission failing a schema rule is rejected with 400
\* validation_error before the sink
C3_InvalidAlways400 ==
  \A r \in Requests :
    ~SchemaOk(r.body)
      => r.sinkCalls = 0 /\ r.resp.status = 400
         /\ r.resp.body.error = "validation_error"

\* C3 amended: a submission failing a schema rule never reaches the sink, and
\* is answered 400 validation_error when the limiter lets it through and the
\* honeypot is not filled (429, or the honeypot's 202, otherwise); the sink is
\* only ever invoked with submissions that pass the whole schema
C3_InvalidNeverSinks ==
  \A r \in Requests :
    /\ r.sinkCalls > 0 => SchemaOk(r.body)
    /\ ~SchemaOk(r.body)
         => /\ r.sinkCalls = 0
            /\ "sink" \notin r.ran
            /\ r.allowed /\ ~HoneypotFilled(r.body)
                 => r.resp.status = 400 /\ r.resp.body.error = "validation_error"

C3_Witness ==
  /\ last.kind = "contact" /\ last.allowed
  /\ SchemaOk([last.body EXCEPT !.name = Str(Jane)]) /\ ~SchemaOk(last.body)
  /\ HoneypotEmpty(last.body)
  /\ last.sinkCalls = 0 /\ last.resp.status = 400

\* C4: once a key has had the capacity counted in its current window, every
\* further request from it inside that window is answered 429 rate_limited;
\* so the request that makes the count capacity + 1 (the 6th) is denied
C4_OverCapacityDenied ==
  [][\A k \in Keys :
       (/\ limiter[k].present /\ now < limiter[k].expiresAt
        /\ limiter[k].value >= points
        /\ limiter'[k] # limiter[k])
       => /\ last'.kind = "contact" /\ last'.key = k
          /\ ~last'.allowed
          /\ last'.resp = R429]_vars

C4_Witness ==
  /\ last.kind = "contact" /\ last.resp = R429
  /\ lim.key = last.key /\ lim.prev = points
  /\ limiter[last.key].value = points + 1
  /\ now > 0 /\ now < limiter[last.key].expiresAt

\* C5: once a key's window has elapsed (window length after the key's first
\* call in it), the next request from the key starts a new window with a
\* count of one and is let through, however many requests were denied before
C5_AllowedAfterWindow ==
  [][\A k \in Keys :
       (/\ limiter[k].present /\ now >= limiter[k].expiresAt
        /\ limiter'[k] # limiter[k])
       => /\ last'.kind = "contact" /\ last'.key = k
          /\ last'.allowed /\ last'.resp # R429
          /\ limiter'[k] = [present |-> TRUE, value |-> 1, expiresAt |-> now + duration]]_vars

C5_Witness ==
  /\ last.kind = "contact" /\ last.allowed /\ last.resp # R429
  /\ lim.key = last.key /\ lim.prev > points + 1 /\ lim.allowed
  /\ limiter[last.key].value = 1
  /\ limiter[last.key].expiresAt = now + duration

\* C6: a request the limiter denies runs nothing but the limiter: no honeypot
\* check, no validation, no sink call, and its only response is the 429
C6_DeniedStopsAtLimiter ==
  /\ \A r \in Requests :
       ~r.allowed => r.ran = {"limiter"} /\ r.sinkCalls = 0 /\ r.resp = R429
  /\ \A i \in 1..Len(pending) : pending[i].allowed
  /\ (last.kind = "contact" /\ last.resp = NoResponse /\ lim.key = last.key)
       => lim.allowed /\ lim.prev < points

C6_Witness ==
  /\ last.kind = "contact" /\ ~last.allowed /\ last.resp = R429
  /\ SchemaOk(last.body) /\ HoneypotEmpty(last.body)
  /\ Len(pending) = 1

\* the schema's fields that a body violates
ViolatedFields(b) == {f \in {"name", "email", "message"} : FieldErrors(b, f) # <<>>}

TripleInvalid == Body(Str(<<>>), Str(NotAnEmail), Str(<<>>), Undefined)

\* C7: a 400 response lists every violated field, one detail entry each (two
\* for a body violating name and email, three for the body with an empty
\* name, "not-an-email" and an empty message)
C7_AllErrorsListed ==
  \A r \in Requests :
    /\ r.resp.status = 400
         => /\ Len(r.resp.body.details) = Cardinality(ViolatedFields(r.body))
            /\ \A f \in ViolatedFields(r.body) :
                 \E i \in 1..Len(r.resp.body.details) :
                   r.resp.body.details[i].path = <<f>>
    /\ (r.body = TripleInvalid /\ r.allowed)
         => /\ r.resp.status = 400
            /\ Len(r.resp.body.details) = 3
            /\ [i \in 1..3 |-> r.resp.body.details[i].path]
                 = << <<"name">>, <<"email">>, <<"message">> >>

C7_Witness ==
  /\ last.body = TripleInvalid
  /\ last.resp.status = 400
  /\ Len(last.resp.body.details) = 3

C7_WitnessTwo ==
  /\ last.kind = "contact" /\ last.resp.status = 400
  /\ ViolatedFields(last.body) = {"name", "email"}
  /\ Len(last.resp.body.details) = 2

Has(s, c) == \E i \in 1..Len(s) : s[i] = c

\* no leading and no trailing whitespace
Trimmed(s) == s = <<>> \/ (s[1] \notin Whitespace /\ s[Len(s)] \notin Whitespace)

Missing(v) == v.t \in {"undefined", "null"}

\* C8: sanitizeInput is idempotent: sanitizing its own result changes no field
C8_SanitizeIdempotent ==
  san.pc = "twice"
    => /\ san.twice.name = san.once.name
       /\ san.twice.email = san.once.email
       /\ san.twice.message = san.once.message

C8_Witness ==
  /\ san.pc = "twice"
  /\ san.x.message.t = "string" /\ Len(san.x.message.s) = MaxStrLen
  /\ Has(SubSeq(san.x.message.s, 2, MaxStrLen - 1), "CR")
  /\ san.once.message.s # san.x.message.s
  /\ Len(san.once.message.s) >= 2
  /\ san.once.name.s # StringOrEmpty(san.x.name)

\* C9 as stated: in the result each of name, email and message is a string
\* without leading or trailing whitespace and without any carriage return or
\* line feed, and a missing field is the empty string
C9_NoLineBreaksInAnyField ==
  san.pc = "once"
    => \A v \in {san.once.name, san.once.email, san.once.message} :
         /\ v.t = "string" /\ Trimmed(v.s)
         /\ ~Has(v.s, "CR") /\ ~Has(v.s, "LF")

\* C9 amended: in the result name, email and message are strings without
\* leading or trailing whitespace; name and email hold no carriage return and
\* no line feed (each became a space), message holds no carriage return but
\* keeps the line feeds inside it; a missing field is the empty string
C9_SanitizedFields ==
  san.pc = "once"
    => /\ \A v \in {san.once.name, san.once.email, san.once.message} :
            v.t = "string" /\ Trimmed(v.s) /\ ~Has(v.s, "CR")
       /\ ~Has(san.once.name.s, "LF") /\ ~Has(san.once.email.s, "LF")
       /\ Missing(san.x.name) => san.once.name = Str(<<>>)
       /\ Missing(san.x.email) => san.once.email = Str(<<>>)
       /\ Missing(san.x.message) => san.once.message = Str(<<>>)
       /\ DOMAIN san.once = {"name", "email", "message"}

C9_Witness ==
  /\ san.pc = "once"
  /\ Missing(san.x.name) /\ san.once.name = Str(<<>>)
  /\ Has(san.x.email.s, "LF") /\ Has(san.x.email.s, "CR")
  /\ san.once.email.s # <<>>
  /\ Has(san.x.message.s, "CR") /\ Has(san.once.message.s, "LF")

\* C10 as stated: two requests that differ only in whether the honeypot field
\* is filled, handled from the same limiter state under the same sink
\* configuration, get the same status and body when the unfilled one is accepted
C10_HoneypotIndistinguishable ==
  (pair.pc = "done" /\ pair.clear.status = 202)
    => /\ pair.filled.status = pair.clear.status
       /\ pair.filled.body = pair.clear.body

\* every message a sink rejects with, whatever the channel
AllSinkErrors == UNION {SinkErrors(mode) : mode \in SinkModes}

\* the catch branch ran for the request: the sink's error was logged
SinkFailed(r) == r.logged \in AllSinkErrors

\* C11: when the sink throws or rejects, the request is answered with status
\* 500 and body { error: "send_failed" } and the sink is not called again: no
\* request has the sink called more than once, and a request whose delivery
\* failed is answered, was handed to the sink exactly once and is not waiting
\* for the sink any more
C11_FailedDeliveryAnsweredNoRetry ==
  \A r \in Requests :
     /\ r.sinkCalls <= 1
     /\ SinkFailed(r)
          => /\ r.resp = R500SendFailed
             /\ r.sinkCalls = 1
             /\ \A i \in 1..Len(pending) : ~SinkFailed(pending[i])

C11_Witness ==
  /\ SinkFailed(last) /\ last.logged = "EAUTH"
  /\ last.resp.status = 500 /\ last.sinkCalls = 1
  /\ pending = <<>>

\* C12: the response to a failed delivery does not depend on the error: for
\* every message the sink rejects with, the response is status 500 with a body
\* that holds the single field error, "send_failed", and nothing of the error,
\* and it is the response every other error message would have got
C12_FailureResponseIndependentOfError ==
  \A r \in Requests, e \in AllSinkErrors :
     r.logged = e
       => /\ r.resp.status = 500
          /\ DOMAIN r.resp.body = {"error"}
          /\ r.resp.body.error = "send_failed"
          /\ \A other \in AllSinkErrors : r.resp = onSendError(other)

C12_Witness ==
  /\ last.logged = "ECONNREFUSED"
  /\ last.resp = [status |-> 500, body |-> [error |-> "send_failed"]]
  /\ last.logged # "EAUTH"

\* C13 as stated: a fault thrown anywhere in the handling of a request, the
\* honeypot check, the validation and the sanitization of an unusual or
\* missing body included, is answered with status 500 and body
\* { error: "internal_error" }, and the service goes on serving
C13_EveryFaultAnswered500 ==
  /\ last.fault => last.resp = R500Internal
  /\ proc = "up"

\* the identifier in a sink's result: the one it names messageId, else the
\* one it names id, else none
Identifier(result) ==
  IF result.messageId.t = "string" /\ result.messageId.s # <<>> THEN result.messageId
  ELSE IF result.id.t = "string" /\ result.id.s # <<>> THEN result.id
  ELSE Null

\* the sink resolved for the request: it was handed the payload, it is not
\* awaited any more and it did not fail
SinkSucceeded(r) ==
  /\ r.sinkCalls = 1 /\ r.resp # NoResponse /\ ~SinkFailed(r)

\* C14: when the sink succeeds the request is answered with status 202 and
\* body { success: true, id }, where id is exactly the identifier the sink
\* returned, and null when the sink returned none (simulate mode)
C14_AcceptedCarriesSinkIdentifier ==
  \A r \in Requests :
     SinkSucceeded(r)
       => /\ r.resp.status = 202
          /\ r.resp.body = [success |-> TRUE, id |-> Identifier(r.sendResult)]
          /\ r.channel = "simulate" => r.resp.body.id = Null

C14_Witness ==
  /\ SinkSucceeded(last)
  /\ last.sendResult = [messageId |-> Undefined, id |-> Str(<<"r", "1">>)]
  /\ last.resp.body.id = Str(<<"r", "1">>)

\* C15: the sink uses exactly one delivery channel, chosen by precedence:
\* SendGrid when SENDGRID_API_KEY is set; otherwise Resend when RESEND_API_KEY
\* is set; otherwise SMTP when the SMTP credentials are set; otherwise the
\* no-op that reports success.  No submission goes through two channels
C15_OneChannelByPrecedence ==
  \A r \in Requests :
     /\ r.sinkCalls <= 1
     /\ r.sinkCalls = 0 => r.channel = "none"
     /\ r.sinkCalls = 1
          => LET sg == env.vars.SENDGRID_API_KEY
                 rs == env.vars.RESEND_API_KEY
                 smtp == env.vars.SMTP
             IN  /\ r.channel = "sendgrid" <=> sg
                 /\ r.channel = "resend" <=> (~sg /\ rs)
                 /\ r.channel = "smtp" <=> (~sg /\ ~rs /\ smtp)
                 /\ r.channel = "simulate" <=> (~sg /\ ~rs /\ ~smtp)
                 /\ r.sendResult \in SinkResults(r.channel) \cup {NoIds}

C15_Witness ==
  /\ env.vars.SENDGRID_API_KEY /\ env.vars.RESEND_API_KEY /\ env.vars.SMTP
  /\ last.sinkCalls = 1 /\ last.channel = "sendgrid"
  /\ last.resp = R202(Str(<<"g", "1">>))

\* proxy trust is configured explicitly: one of the two variables is "1"
TrustConfigured(e) ==
  e.TRUST_PROXY = Str(<<"1">>) \/ e.REACT_APP_TRUST_PROXY = Str(<<"1">>)

\* C16 as stated: the rate-limit key is the proxy-supplied address only when
\* proxy trust is explicitly configured, otherwise the address of the direct
\* connection, and the constant bucket (a key that is no address) only when
\* no address can be had; without configured proxy trust the forwarding
\* header is never the key
C16_KeyFromTrustedSourceOnly ==
  last.kind = "contact"
    => /\ (last.xff # "" /\ last.key = last.xff) => TrustConfigured(env.vars)
       /\ (~TrustConfigured(env.vars) /\ last.addr # "") => last.key = last.addr
       /\ (last.addr = "" /\ ~(TrustConfigured(env.vars) /\ last.xff # ""))
            => last.key \notin Keys
       /\ last.key \notin Keys => last.addr = ""

\* the body carries a field the schema does not name
HasUnknownField(b) == b.extra.t # "undefined" \/ b.website.t # "undefined"

\* C17: fields other than name, email and message are dropped, not rejected:
\* a 400 answer to a body with such a field is owed to a schema field alone
\* and lists schema fields only, a valid body with such a field that passes
\* the limiter and the honeypot check reaches the sink, and the payload the
\* sink gets holds name, email and message and nothing else
C17_UnknownFieldsDropped ==
  \A r \in Requests :
     HasUnknownField(r.body)
       => /\ r.resp.status = 400
               => /\ ~SchemaOk(r.body)
                  /\ \A i \in 1..Len(r.resp.body.details) :
                        r.resp.body.details[i].path[1] \in {"name", "email", "message"}
          /\ (SchemaOk(r.body) /\ r.allowed /\ HoneypotEmpty(r.body))
               => r.sinkCalls = 1
          /\ r.sinkCalls = 1 => DOMAIN r.payload = {"name", "email", "message"}

C17_Witness ==
  /\ last.body.extra = Str(<<"1">>) /\ last.body.website = Str(<<>>)
  /\ SchemaOk(last.body)
  /\ last.resp.status = 202 /\ last.sinkCalls = 1
  /\ DOMAIN last.payload = {"name", "email", "message"}

\* C18 as stated: the schema's rules hold of the sanitized values: every
\* payload handed to the sink has a name of 1 to 120 characters, a message of
\* 1 to 5000 characters and an email that matches the address grammar
C18_SinkPayloadMeetsSchema ==
  \A r \in Requests :
     r.sinkCalls = 1
       => /\ Len(r.payload.name.s) \in 1..NameMax
          /\ Len(r.payload.message.s) \in 1..MessageMax
          /\ IsEmail(r.payload.email.s)

\* C19: the abuse filter is evaluated before the schema validator: a request
\* that has the honeypot field filled and invalid fields as well is never
\* answered 400 and never validated, and once past the limiter it triggers
\* the honeypot check, is answered 202 with id null and is handed to no sink
C19_HoneypotBeforeValidation ==
  \A r \in Requests :
     (HoneypotFilled(r.body) /\ ~SchemaOk(r.body))
       => /\ r.resp.status # 400
          /\ "validate" \notin r.ran
          /\ r.allowed
               => ("honeypot" \in r.ran /\ r.resp = R202(Null) /\ r.sinkCalls = 0)

C19_Witness ==
  /\ last.body = Body(Str(<<>>), Str(NotAnEmail), Str(<<>>), Str(<<"b", "o", "t">>))
  /\ last.ran = {"limiter", "honeypot"}
  /\ last.resp.status = 202 /\ last.resp.body.id = Null

\* C20: the limiter's counters are updated atomically: however the requests
\* of a key interleave at the middleware's await, the requests the limiter
\* lets through in one window never exceed the capacity, and every call is
\* counted: the calls still suspended and the verdicts given add up to the
\* points the store holds
C20_NeverMoreThanCapacityPass ==
  \A k \in Keys :
     /\ lim.granted[k] <= points
     /\ limiter[k].present
          => lim.granted[k] + Cardinality({i \in 1..Len(pending) :
                                            AwaitsLimiter(i) /\ pending[i].key = k})
               >= (IF limiter[k].value < points THEN limiter[k].value ELSE points)

C20_Witness ==
  /\ Len(pending) = MaxInFlight
  /\ \A i \in 1..Len(pending) : AwaitsLimiter(i) /\ pending[i].key = "ip1"
  /\ pending[1].consumed = points /\ pending[2].consumed = points + 1
  /\ lim.granted["ip1"] = points - 1

\* a request is suspended at await sendContactEmail(...)
SinkAwaited == \E i \in 1..Len(pending) : pending[i].sinkCalls > 0

ContactApiSet == ui.cfg.REACT_APP_CONTACT_API_URL # <<>>

\* a contact form has been submitted
Submitted == ui.submits > 0

\* C22 as stated: with REACT_APP_CONTACT_API_URL set, a submitted form is
\* POSTed as { name, email, subject, message } to `${URL}/api/contact/`; the
\* EmailJS path is taken only when the URL is not set, and success is
\* simulated only when neither the URL nor EmailJS is configured
C22_SubmitPostsToContactApi ==
  Submitted =>
    /\ ContactApiSet =>
         /\ ui.via = "api"
         /\ ui.net.method = "POST"
         /\ ui.net.url = StripTrailingSlashes(ui.cfg.REACT_APP_CONTACT_API_URL)
                           \o <<"/api/contact/">>
         /\ DOMAIN ui.net.body = {"name", "email", "subject", "message"}
    /\ ui.via = "emailjs" => ~ContactApiSet
    /\ ui.via = "simulate" => ~ContactApiSet

\* one of the three EmailJS variables is not set
EmailJsIncomplete ==
  \/ ~ui.cfg.REACT_APP_EMAILJS_PUBLIC_KEY
  \/ ~ui.cfg.REACT_APP_EMAILJS_SERVICE_ID
  \/ ~ui.cfg.REACT_APP_EMAILJS_TEMPLATE_ID

FieldsUnchanged ==
  /\ ui'.form.name = ui.form.name
  /\ ui'.form.email = ui.form.email
  /\ ui'.form.message = ui.form.message

C30_StatusMovesThroughSending ==
  [][/\ ui'.form.status # ui.form.status =>
          \/ /\ ui.form.status \in {"idle", "success", "error"}
             /\ ui'.form.status = "sending"
             /\ ui'.submits = ui.submits + 1
          \/ /\ ui.form.status = "sending"
             /\ ui'.form.status \in {"success", "error"}
             /\ ui'.submits = ui.submits
     /\ ui'.submits # ui.submits =>
          /\ ui.form.status # "sending"
          /\ ui'.form.status = "sending" /\ ui'.form.error = ""
     /\ Len(ui'.ops) <= 1
     /\ Len(ui'.ops) = 1 <=> ui'.form.status = "sending"]_vars

\* a second submission, made after the first one failed, is being sent: the
\* error of the first is cleared
C30_Witness ==
  /\ ui.submits = 2 /\ ui.form.status = "sending" /\ ui.form.error = ""
  /\ Len(ui.ops) = 1 /\ ui.via = "emailjs"

\* C24 as stated: in the document App renders in its initial state, each of
\* the texts 'About Me', 'Skills', 'Projects', 'Resume' and 'Contact' is
\* found by the test's single-match lookup
C24_EachSectionTextFoundByGetByText ==
  (ui.lookup.text \in TestQueries /\ ui.form = contactState)
    => ui.lookup.outcome = "found"

\* the points a key has consumed in its window that is live at the present time
LivePoints(k) ==
  IF limiter[k].present /\ limiter[k].expiresAt > now THEN limiter[k].value ELSE 0

\* C25: every POST /contact consumes one point of its key before anything
\* else: the key's count goes up by one whether the request is then answered
\* 400, honeypot-202 or 429, and the request is refused with 429 exactly when
\* that count, requests answered 400 and 202 included, exceeds the capacity
C25_EveryRequestConsumesAPoint ==
  [][(last' # last /\ last'.kind = "contact") =>
       /\ "limiter" \in last'.ran
       /\ limiter'[last'.key].value = LivePoints(last'.key) + 1
       /\ last'.resp.status \in {202, 400, 429}
       /\ last'.resp.status = 429 <=> LivePoints(last'.key) + 1 > points
       /\ last'.resp.status # 429 => last'.ran \ {"limiter"} # {}]_vars

\* a request refused after the capacity was used up by requests that were all
\* answered 400 or dropped by the honeypot with 202
C25_Witness ==
  /\ last.kind = "contact" /\ last.resp.status = 429
  /\ last.consumed = points + 1
  /\ lim.granted[last.key] = points
  /\ \A r \in Requests : r.sinkCalls = 0

\* the granted calls of key k in the span, shorter than one window, that ends
\* at the present time
GrantedWithinWindowSpan(k) ==
  Cardinality({i \in 1..Len(lim.times[k]) : now - lim.times[k][i] < duration})

AwaitsSink(r) ==
  /\ r.sinkCalls > 0 /\ r.resp = NoResponse
  /\ \E i \in 1..Len(pending) : pending[i] = r

\* C27 as stated: every POST /contact request whose sink call, if any, has
\* settled is answered, with one of 202, 400 validation_error, 429
\* rate_limited, 500 send_failed or 500 internal_error
C27_EveryRequestAnsweredOnce ==
  (last.kind = "contact" /\ ~AwaitsSink(last)) =>
    \/ last.resp.status \in {202, 400}
    \/ last.resp \in {R429, R500SendFailed, R500Internal}

\* the store with the records of all keys but k removed
OnlyKey(k) == [j \in Keys |-> IF j = k THEN limiter[j] ELSE NoRecord]

\* C28: a request from one key leaves the record, count and window, of every
\* other key as it was, and its verdict is the one the limiter would give had
\* no other key ever made a request: it depends on the key's own record and
\* the clock alone
C28_KeysAreIndependent ==
  [][(last' # last /\ last'.kind = "contact") =>
       /\ \A j \in Keys \ {last'.key} : limiter'[j] = limiter[j]
       /\ last'.allowed = ~consume(OnlyKey(last'.key), last'.key, now).rejected
       /\ limiter'[last'.key] = consume(OnlyKey(last'.key), last'.key, now).store[last'.key]]_vars

\* one key is over its capacity in a live window, and a first request of the
\* other key has just been granted
C28_Witness ==
  /\ last.kind = "contact" /\ last.key = "ip2" /\ last.allowed
  /\ limiter["ip2"].value = 1
  /\ limiter["ip1"].value > points /\ limiter["ip1"].expiresAt > now

\* C29: GET on the health path is answered 200 with status "ok", and a
\* request no route matches is answered 404 { error: "not_found" }; neither
\* changes the limiter's record of any key, calls the sink, or touches a
\* request suspended at the sink
C29_OnlyContactTouchesLimiterAndSink ==
  [][(last' # last /\ last'.kind \in {"health", "unmatched"}) =>
       /\ limiter' = limiter
       /\ pending' = pending
       /\ last'.sinkCalls = 0 /\ last'.channel = "none" /\ last'.consumed = 0
       /\ last'.kind = "health" =>
            /\ last'.resp.status = 200 /\ last'.resp.body.status = "ok"
       /\ last'.kind = "unmatched" =>
            /\ last'.resp.status = 404
            /\ last'.resp.body = [error |-> "not_found"]]_vars

\* the health path and an unmatched route were requested after contact
\* requests had used points of ip1: the count is that of the contact requests
C29_Witness ==
  /\ last.kind = "unmatched" /\ last.resp = R404
  /\ limiter["ip1"].value = 3 /\ lim.prev = 2
  /\ pending # <<>>

====
